---- MODULE Spec2Model ----
(***************************************************************************)
(* RBAC Roles + Users (src/main.py): the role and user tables, the JSON    *)
(* request bodies, and the HTTP handlers of /api/roles and /api/users.     *)
(*                                                                         *)
(* Strings are sequences of one-character strings, so that strip(),        *)
(* concatenation and the JSON text of a column are computed, not assumed.  *)
(* A JSON value is a record tagged by "t": null, bool, num, str (v: the    *)
(* characters), arr (v: the elements) and obj (v: the <<key, value>> pairs *)
(* in insertion order, as a Python dict keeps them).                       *)
(***************************************************************************)
EXTENDS Integers, Sequences, FiniteSets, TLC

VARIABLES roles, users, clock, resp, procs

vars == <<roles, users, clock, resp, procs>>

----------------------------------------------------------------------------
(* Bounds of the model. *)

\* Requests handled in one behaviour of Spec (each request advances clock).
MaxOps == 2

\* Requests started in one behaviour of SpecConc.
MaxConcOps == 3

----------------------------------------------------------------------------
(* Strings. *)

Whitespace == {" "}

RECURSIVE lstrip(_)
lstrip(s) ==
    IF s # <<>> /\ Head(s) \in Whitespace THEN lstrip(Tail(s)) ELSE s

RECURSIVE rstrip(_)
rstrip(s) ==
    IF s # <<>> /\ s[Len(s)] \in Whitespace
    THEN rstrip(SubSeq(s, 1, Len(s) - 1))
    ELSE s

\* str.strip(): leading and trailing whitespace removed.
strip(s) == rstrip(lstrip(s))

\* needle in hay, for Python strings: needle occurs as a contiguous run.
StrContains(hay, needle) ==
    \E i \in 0..(Len(hay) - Len(needle)) :
        SubSeq(hay, i + 1, i + Len(needle)) = needle

----------------------------------------------------------------------------
(* JSON values. *)

JNull == [t |-> "null"]
JBool(b) == [t |-> "bool", v |-> b]
JNum(n) == [t |-> "num", v |-> n]
JStr(s) == [t |-> "str", v |-> s]
JArr(xs) == [t |-> "arr", v |-> xs]
JObj(kvs) == [t |-> "obj", v |-> kvs]

\* bool(x) of the Python value a JSON value parses to.
Truthy(j) ==
    CASE j.t = "null" -> FALSE
      [] j.t = "bool" -> j.v
      [] j.t = "num" -> j.v # 0
      [] OTHER -> j.v # <<>>

\* x or d
Or(j, d) == IF Truthy(j) THEN j ELSE d

HasKey(obj, k) == \E i \in 1..Len(obj.v) : obj.v[i][1] = k

\* dict.get(k): the value under k, None when the key is absent.
Get(obj, k) ==
    IF HasKey(obj, k)
    THEN obj.v[CHOOSE i \in 1..Len(obj.v) : obj.v[i][1] = k][2]
    ELSE JNull

\* data.get(...) raises AttributeError unless data is a dict.
GetRaises(data) == data.t # "obj"

\* k in data raises TypeError for None, a bool or a number.
InRaises(data) == data.t \in {"null", "bool", "num"}

\* k in data: a key of a dict, an element of a list, a substring of a str.
In(k, data) ==
    CASE data.t = "obj" -> HasKey(data, k)
      [] data.t = "arr" -> \E i \in 1..Len(data.v) : data.v[i] = JStr(k)
      [] data.t = "str" -> StrContains(data.v, k)
      [] OTHER -> FALSE

----------------------------------------------------------------------------
(* json.dumps and json.loads on the text of a column. *)

Digits == <<"0", "1", "2", "3", "4", "5", "6", "7", "8", "9">>

RECURSIVE NatText(_)
NatText(n) ==
    IF n < 10 THEN <<Digits[n + 1]>>
    ELSE NatText(n \div 10) \o <<Digits[(n % 10) + 1]>>

IntText(n) == IF n < 0 THEN <<"-">> \o NatText(-n) ELSE NatText(n)

RECURSIVE EscapeText(_)
EscapeText(s) ==
    IF s = <<>> THEN <<>>
    ELSE (IF Head(s) \in {"\"", "\\"} THEN <<"\\", Head(s)>> ELSE <<Head(s)>>)
         \o EscapeText(Tail(s))

StrText(s) == <<"\"">> \o EscapeText(s) \o <<"\"">>

RECURSIVE dumps(_)
RECURSIVE DumpItems(_, _)
RECURSIVE DumpPairs(_, _)

\* The elements of a list from the i-th on, separated by ", ".
DumpItems(xs, i) ==
    IF i > Len(xs) THEN <<>>
    ELSE (IF i > 1 THEN <<",", " ">> ELSE <<>>) \o dumps(xs[i])
         \o DumpItems(xs, i + 1)

\* The items of a dict from the i-th on: "key": value, separated by ", ".
DumpPairs(kvs, i) ==
    IF i > Len(kvs) THEN <<>>
    ELSE (IF i > 1 THEN <<",", " ">> ELSE <<>>) \o StrText(kvs[i][1])
         \o <<":", " ">> \o dumps(kvs[i][2]) \o DumpPairs(kvs, i + 1)

\* json.dumps(j) with the default separators.
dumps(j) ==
    CASE j.t = "null" -> <<"n", "u", "l", "l">>
      [] j.t = "bool" ->
           (IF j.v THEN <<"t", "r", "u", "e">> ELSE <<"f", "a", "l", "s", "e">>)
      [] j.t = "num" -> IntText(j.v)
      [] j.t = "str" -> StrText(j.v)
      [] j.t = "arr" -> <<"[">> \o DumpItems(j.v, 1) \o <<"]">>
      [] OTHER -> <<"{">> \o DumpPairs(j.v, 1) \o <<"}">>

DigitValue(c) == (CHOOSE d \in 1..10 : Digits[d] = c) - 1

IsDigit(c) == \E d \in 1..10 : Digits[d] = c

RECURSIVE SkipWs(_, _)
SkipWs(txt, i) ==
    IF i <= Len(txt) /\ txt[i] \in Whitespace THEN SkipWs(txt, i + 1) ELSE i

\* The characters of a string literal whose opening quote is before i; the
\* result is the string and the index after the closing quote.
RECURSIVE ParseChars(_, _, _)
ParseChars(txt, i, acc) ==
    IF txt[i] = "\"" THEN [v |-> acc, i |-> i + 1]
    ELSE IF txt[i] = "\\" THEN ParseChars(txt, i + 2, Append(acc, txt[i + 1]))
    ELSE ParseChars(txt, i + 1, Append(acc, txt[i]))

RECURSIVE ParseNat(_, _, _)
ParseNat(txt, i, acc) ==
    IF i <= Len(txt) /\ IsDigit(txt[i])
    THEN ParseNat(txt, i + 1, 10 * acc + DigitValue(txt[i]))
    ELSE [v |-> acc, i |-> i]

RECURSIVE ParseValue(_, _)
RECURSIVE ParseItems(_, _, _)
RECURSIVE ParsePairs(_, _, _)

\* The elements of a list up to its "]"; i is at an element or at "]".
ParseItems(txt, i, acc) ==
    LET j == SkipWs(txt, i) IN
    IF txt[j] = "]" THEN [v |-> JArr(acc), i |-> j + 1]
    ELSE IF txt[j] = "," THEN ParseItems(txt, j + 1, acc)
    ELSE LET e == ParseValue(txt, j) IN ParseItems(txt, e.i, Append(acc, e.v))

\* dict[k] = x: a key met again keeps its place and takes the later value.
SetKey(kvs, k, x) ==
    IF \E n \in 1..Len(kvs) : kvs[n][1] = k
    THEN [n \in 1..Len(kvs) |-> IF kvs[n][1] = k THEN <<k, x>> ELSE kvs[n]]
    ELSE Append(kvs, <<k, x>>)

\* The items of a dict up to its "}"; i is at a key, at "," or at "}".
ParsePairs(txt, i, acc) ==
    LET j == SkipWs(txt, i) IN
    IF txt[j] = "}" THEN [v |-> JObj(acc), i |-> j + 1]
    ELSE IF txt[j] = "," THEN ParsePairs(txt, j + 1, acc)
    ELSE LET k == ParseChars(txt, j + 1, <<>>)
             c == SkipWs(txt, k.i)
             e == ParseValue(txt, c + 1)
         IN ParsePairs(txt, e.i, SetKey(acc, k.v, e.v))

ParseValue(txt, i0) ==
    LET i == SkipWs(txt, i0) IN
    CASE txt[i] = "n" -> [v |-> JNull, i |-> i + 4]
      [] txt[i] = "t" -> [v |-> JBool(TRUE), i |-> i + 4]
      [] txt[i] = "f" -> [v |-> JBool(FALSE), i |-> i + 5]
      [] txt[i] = "\"" ->
           LET s == ParseChars(txt, i + 1, <<>>) IN [v |-> JStr(s.v), i |-> s.i]
      [] txt[i] = "[" -> ParseItems(txt, i + 1, <<>>)
      [] txt[i] = "{" -> ParsePairs(txt, i + 1, <<>>)
      [] txt[i] = "-" ->
           LET n == ParseNat(txt, i + 1, 0) IN [v |-> JNum(-n.v), i |-> n.i]
      [] OTHER -> LET n == ParseNat(txt, i, 0) IN [v |-> JNum(n.v), i |-> n.i]

\* json.loads(txt)
loads(txt) == ParseValue(txt, 1).v

\* json.loads(column or dflt): an empty column reads as the default text.
LoadColumn(txt, dflt) == loads(IF txt = <<>> THEN dflt ELSE txt)

----------------------------------------------------------------------------
(* The tables. A table is a function from the ids of its rows to the rows.  *)
(* Role: name, privileges and assigned_users (JSON text), created_at.      *)
(* User: name, created_at, and the nullable role, email, phone, branch,    *)
(* each held as JNull or JStr(characters).                                 *)

EmptyTable == <<>>

Ids(table) == DOMAIN table

Names(table) == {table[i].name : i \in DOMAIN table}

RECURSIVE MaxOf(_)
MaxOf(S) ==
    IF S = {} THEN 0
    ELSE LET x == CHOOSE y \in S : TRUE
             m == MaxOf(S \ {x})
         IN IF x > m THEN x ELSE m

\* INTEGER PRIMARY KEY: a new row gets the largest id in the table plus one.
NextId(table) == MaxOf(Ids(table)) + 1

\* UniqueViolation with the unique=True of the name column left out.
UniqueViolation_unconstrained(table, id, name) == FALSE

\* unique=True on name: the row may not take a name another row holds.
UniqueViolation(table, id, name) ==
    \E i \in DOMAIN table : i # id /\ table[i].name = name

\* Insert on a table whose name column is not unique.
Insert_unchecked(table, row) ==
    LET id == NextId(table) IN
    [ok |-> TRUE,
     table |-> [i \in DOMAIN table \cup {id} |->
                   IF i = id THEN row ELSE table[i]],
     id |-> id]

\* INSERT: IntegrityError (ok FALSE, table as it was) or the table with the row.
Insert(table, row) ==
    IF UniqueViolation(table, 0, row.name)
    THEN [ok |-> FALSE, table |-> table, id |-> 0]
    ELSE LET id == NextId(table) IN
         [ok |-> TRUE,
          table |-> [i \in DOMAIN table \cup {id} |->
                        IF i = id THEN row ELSE table[i]],
          id |-> id]

\* The columns the session writes: those set to a value other than the
\* loaded one.
Changed(loaded, row) == {c \in DOMAIN row : row[c] # loaded[c]}

\* Update on a table whose name column is not unique.
Update_unchecked(table, id, loaded, row) ==
    LET cols == Changed(loaded, row) IN
    IF cols = {} THEN [ok |-> TRUE, table |-> table]
    ELSE IF id \notin DOMAIN table THEN [ok |-> FALSE, table |-> table]
    ELSE [ok |-> TRUE,
          table |-> [table EXCEPT ![id] =
                        [c \in DOMAIN row |->
                            IF c \in cols THEN row[c] ELSE table[id][c]]]]

\* UPDATE ... WHERE id = ?: nothing to write; StaleDataError when no row has
\* the id; IntegrityError on a taken name; else the changed columns written.
Update(table, id, loaded, row) ==
    LET cols == Changed(loaded, row) IN
    IF cols = {} THEN [ok |-> TRUE, table |-> table]
    ELSE IF id \notin DOMAIN table THEN [ok |-> FALSE, table |-> table]
    ELSE IF "name" \in cols /\ UniqueViolation(table, id, row.name)
    THEN [ok |-> FALSE, table |-> table]
    ELSE [ok |-> TRUE,
          table |-> [table EXCEPT ![id] =
                        [c \in DOMAIN row |->
                            IF c \in cols THEN row[c] ELSE table[id][c]]]]

\* DELETE ... WHERE id = ?
Delete(table, id) == [i \in DOMAIN table \ {id} |-> table[i]]

\* Role(name=..., privileges=..., assigned_users=...), created_at by default.
Role(name, privileges, assigned_users, now) ==
    [name |-> name, privileges |-> privileges,
     assigned_users |-> assigned_users, created_at |-> now]

\* User(name=..., role=..., email=..., phone=..., branch=...)
User(name, role, email, phone, branch, now) ==
    [name |-> name, role |-> role, email |-> email, phone |-> phone,
     branch |-> branch, created_at |-> now]

\* Role.to_dict
role_to_dict(id, r) ==
    JObj(<< <<<<"i","d">>, JNum(id)>>,
            <<<<"n","a","m","e">>, JStr(r.name)>>,
            <<<<"p","r","i","v","i","l","e","g","e","s">>, LoadColumn(r.privileges, <<"{", "}">>)>>,
            <<<<"a","s","s","i","g","n","e","d","_","u","s","e","r","s">>, LoadColumn(r.assigned_users, <<"[", "]">>)>>,
            <<<<"c","r","e","a","t","e","d","_","a","t">>, JNum(r.created_at)>> >>)

\* User.to_dict
user_to_dict(id, u) ==
    JObj(<< <<<<"i","d">>, JNum(id)>>,
            <<<<"n","a","m","e">>, JStr(u.name)>>,
            <<<<"r","o","l","e">>, u.role>>,
            <<<<"e","m","a","i","l">>, u.email>>,
            <<<<"p","h","o","n","e">>, u.phone>>,
            <<<<"b","r","a","n","c","h">>, u.branch>>,
            <<<<"c","r","e","a","t","e","d","_","a","t">>, JNum(u.created_at)>> >>)

----------------------------------------------------------------------------
(* The startup block: the seed rows. *)

default_modules ==
    << <<"M","a","n","a","g","e"," ","R","o","l","e","s">>,
       <<"M","a","n","a","g","e"," ","B","r","a","n","c","h","e","s">>,
       <<"M","a","n","a","g","e"," ","R","e","l","a","t","i","o","n","s","h","i","p"," ","M","a","n","a","g","e","r","s">>,
       <<"M","a","n","a","g","e"," ","S","t","a","t","e","s">>,
       <<"M","a","n","a","g","e"," ","S","a","t","e","l","l","i","t","e","s">>,
       <<"P","O","S","P">>,
       <<"P","r","e","m","i","u","m"," ","R","e","g","i","s","t","e","r">>,
       <<"C","o","m","m","i","s","s","i","o","n"," ","S","t","a","t","e","m","e","n","t","s">> >>

POSSIBLE_PRIVS ==
    << <<"c","r","e","a","t","e">>,
       <<"r","e","a","d">>,
       <<"u","p","d","a","t","e">>,
       <<"d","e","l","e","t","e">>,
       <<"b","u","l","k","u","p","l","o","a","d">> >>

Take(xs, n) == SubSeq(xs, 1, n)

\* {m: privs for m in mods}
PrivMap(mods, privs) ==
    JObj([i \in 1..Len(mods) |->
            <<mods[i], JArr([k \in 1..Len(privs) |-> JStr(privs[k])])>>])

NameList(names) == JArr([i \in 1..Len(names) |-> JStr(names[i])])

admin_privs == PrivMap(default_modules, POSSIBLE_PRIVS)

ops_privs == PrivMap(Take(default_modules, 6), <<POSSIBLE_PRIVS[2], POSSIBLE_PRIVS[3]>>)

exp_privs == PrivMap(Take(default_modules, 2), <<POSSIBLE_PRIVS[2]>>)

users_seed ==
    <<User(<<"a","d","m","i","n","@","c","o","m","p","a","n","y",".","c","o","m">>,
            JStr(<<"A","d","m","i","n">>),
            JStr(<<"a","d","m","i","n","@","c","o","m","p","a","n","y",".","c","o","m">>),
            JStr(<<"9","9","9","9","9","9","9","9","9","9">>),
            JStr(<<"H","O">>), 0),
       User(<<"o","p","s","@","c","o","m","p","a","n","y",".","c","o","m">>,
            JStr(<<"O","p","s"," ","U","s","e","r">>),
            JStr(<<"o","p","s","@","c","o","m","p","a","n","y",".","c","o","m">>),
            JStr(<<"8","8","8","8","8","8","8","8","8","8">>),
            JStr(<<"H","O">>), 0),
       User(<<"b","r","a","n","c","h","1","@","c","o","m","p","a","n","y",".","c","o","m">>,
            JStr(<<"B","r","a","n","c","h"," ","U","s","e","r">>),
            JStr(<<"b","r","a","n","c","h","1","@","c","o","m","p","a","n","y",".","c","o","m">>),
            JStr(<<"7","7","7","7","7","7","7","7","7","7">>),
            JStr(<<"B","r","a","n","c","h","-","1">>), 0),
       User(<<"b","r","a","n","c","h","2","@","c","o","m","p","a","n","y",".","c","o","m">>,
            JStr(<<"B","r","a","n","c","h"," ","U","s","e","r">>),
            JStr(<<"b","r","a","n","c","h","2","@","c","o","m","p","a","n","y",".","c","o","m">>),
            JStr(<<"6","6","6","6","6","6","6","6","6","6">>),
            JStr(<<"B","r","a","n","c","h","-","2">>), 0),
       User(<<"r","m","1","@","c","o","m","p","a","n","y",".","c","o","m">>,
            JStr(<<"R","M"," ","U","s","e","r">>),
            JStr(<<"r","m","1","@","c","o","m","p","a","n","y",".","c","o","m">>),
            JStr(<<"5","5","5","5","5","5","5","5","5","5">>),
            JStr(<<"H","O">>), 0) >>

r1 ==
    Role(<<"A","d","m","i","n">>,
         dumps(admin_privs),
         dumps(NameList(<<<<"a","d","m","i","n","@","c","o","m","p","a","n","y",".","c","o","m">>>>)), 0)

r2 ==
    Role(<<"O","p","s"," ","U","s","e","r">>,
         dumps(ops_privs),
         dumps(NameList(<<<<"o","p","s","@","c","o","m","p","a","n","y",".","c","o","m">>>>)), 0)

r3 ==
    Role(<<"E","x","p"," ","U","s","e","r">>,
         dumps(exp_privs),
         dumps(NameList(<<>>)), 0)

r4 ==
    Role(<<"s","u","p","e","r"," ","u","s","e","r">>,
         dumps(PrivMap(Take(default_modules, 5), <<POSSIBLE_PRIVS[1], POSSIBLE_PRIVS[2], POSSIBLE_PRIVS[3], POSSIBLE_PRIVS[4]>>)),
         dumps(NameList(<<<<"b","r","a","n","c","h","1","@","c","o","m","p","a","n","y",".","c","o","m">>>>)), 0)

r5 ==
    Role(<<"E","x","p"," ","s","u","p","e","r"," ","u","s","e","r">>,
         dumps(PrivMap(Take(default_modules, 5), <<POSSIBLE_PRIVS[2], POSSIBLE_PRIVS[3]>>)),
         dumps(NameList(<<<<"b","r","a","n","c","h","2","@","c","o","m","p","a","n","y",".","c","o","m">>>>)), 0)

r6 ==
    Role(<<"H","O"," ","F","i","n","a","n","c","e">>,
         dumps(PrivMap(Take(default_modules, 4), <<POSSIBLE_PRIVS[2], POSSIBLE_PRIVS[3]>>)),
         dumps(NameList(<<<<"r","m","1","@","c","o","m","p","a","n","y",".","c","o","m">>>>)), 0)

r7 ==
    Role(<<"O","p","e","r","a","t","i","o","n","s"," ","m","a","n","a","g","e","r">>,
         dumps(PrivMap(Take(default_modules, 5), <<POSSIBLE_PRIVS[2], POSSIBLE_PRIVS[3]>>)),
         dumps(NameList(<<>>)), 0)

r8 ==
    Role(<<"B","r","a","n","c","h"," ","u","s","e","r">>,
         dumps(PrivMap(Take(default_modules, 5), <<POSSIBLE_PRIVS[1], POSSIBLE_PRIVS[2], POSSIBLE_PRIVS[3]>>)),
         dumps(NameList(<<>>)), 0)

\* db.session.add_all(rows); db.session.commit() on an empty table.
AddAll(rows) == [i \in 1..Len(rows) |-> rows[i]]

\* seed users if none
SeedUsers(table) ==
    IF Ids(table) = {} THEN AddAll(users_seed) ELSE table

\* seed roles if none
SeedRoles(table) ==
    IF Ids(table) = {} THEN AddAll(<<r1, r2, r3, r4, r5, r6, r7, r8>>) ELSE table

----------------------------------------------------------------------------
(* The handlers. Each is written as the steps it takes against the store:   *)
(* its queries (Role.query.get, the name look-up), which end the request    *)
(* with a reply or yield what db.session.commit() is to write, and the      *)
(* commit. A reply is the status, the "error" or "message" of the JSON      *)
(* body and the record returned under "role" or "user"; status 500 stands   *)
(* for an exception that leaves the handler, named in error.                *)

Reply(status, error, message, record) ==
    [done |-> TRUE, status |-> status, error |-> error, message |-> message,
     record |-> record]

Raise(exception) == Reply(500, exception, "", JNull)

\* request.json or {}
Data(body) == Or(body, JObj(<<>>))

K_name == <<"n","a","m","e">>
K_privileges == <<"p","r","i","v","i","l","e","g","e","s">>
K_assigned_users == <<"a","s","s","i","g","n","e","d","_","u","s","e","r","s">>
K_role == <<"r","o","l","e">>
K_email == <<"e","m","a","i","l">>
K_phone == <<"p","h","o","n","e">>
K_branch == <<"b","r","a","n","c","h">>

\* " Copy", the suffix of a duplicate's name.
CopySuffix == <<" ","C","o","p","y">>

\* query.get(id): the loaded row.
QueryGet(table, id) == table[id]

\* (data.get(k) or "").strip() or None, for a value that is a str or None.
StripOrNone(j) ==
    LET s == strip(Or(j, JStr(<<>>)).v) IN
    IF s = <<>> THEN JNull ELSE JStr(s)

\* create_role_check without the .strip() of the name.
create_role_check_unstripped(body, table) ==
    LET data == Data(body) IN
    IF GetRaises(data) THEN Raise("AttributeError")
    ELSE
    LET name == Or(Get(data, K_name), JStr(<<>>)).v
        privileges == Or(Get(data, K_privileges), JObj(<<>>))
        assigned_users == Or(Get(data, K_assigned_users), JArr(<<>>))
    IN
    IF name = <<>> THEN Reply(400, "missing name", "", JNull)
    ELSE IF \E i \in DOMAIN table : table[i].name = name
    THEN Reply(400, "role exists", "", JNull)
    ELSE [done |-> FALSE,
          row |-> [name |-> name, privileges |-> dumps(privileges),
                   assigned_users |-> dumps(assigned_users)]]

\* api_create_role up to the commit: the request's fields, the two checks,
\* the new Role. name is a str or None.
create_role_check(body, table) ==
    LET data == Data(body) IN
    IF GetRaises(data) THEN Raise("AttributeError")
    ELSE
    LET name == strip(Or(Get(data, K_name), JStr(<<>>)).v)
        privileges == Or(Get(data, K_privileges), JObj(<<>>))
        assigned_users == Or(Get(data, K_assigned_users), JArr(<<>>))
    IN
    IF name = <<>> THEN Reply(400, "missing name", "", JNull)
    ELSE IF \E i \in DOMAIN table : table[i].name = name
    THEN Reply(400, "role exists", "", JNull)
    ELSE [done |-> FALSE,
          row |-> [name |-> name, privileges |-> dumps(privileges),
                   assigned_users |-> dumps(assigned_users)]]

\* db.session.add(r); db.session.commit(); the reply.
create_role_commit(plan, table, now) ==
    LET ins == Insert(table, Role(plan.row.name, plan.row.privileges,
                                  plan.row.assigned_users, now))
    IN
    IF ~ins.ok THEN [table |-> table, reply |-> Raise("IntegrityError")]
    ELSE [table |-> ins.table,
          reply |-> Reply(200, "", "role created",
                          role_to_dict(ins.id, ins.table[ins.id]))]

\* update_role_check with "if privileges:" and "if assigned_users:" in place
\* of the tests against None.
update_role_check_truthy(role_id, body, r, table) ==
    LET data == Data(body) IN
    IF GetRaises(data) THEN Raise("AttributeError")
    ELSE
    LET name == Get(data, K_name)
        privileges == Get(data, K_privileges)
        assigned_users == Get(data, K_assigned_users)
    IN
    IF Truthy(name)
       /\ \E i \in DOMAIN table : table[i].name = name.v /\ i # role_id
    THEN Reply(400, "role name conflict", "", JNull)
    ELSE [done |-> FALSE,
          row |-> [name |-> IF Truthy(name) THEN name.v ELSE r.name,
                   privileges |-> IF Truthy(privileges)
                                  THEN dumps(privileges) ELSE r.privileges,
                   assigned_users |-> IF Truthy(assigned_users)
                                      THEN dumps(assigned_users)
                                      ELSE r.assigned_users,
                   created_at |-> r.created_at]]

\* update_role_check whose conflict query leaves out Role.id != role_id.
update_role_check_any_id(role_id, body, r, table) ==
    LET data == Data(body) IN
    IF GetRaises(data) THEN Raise("AttributeError")
    ELSE
    LET name == Get(data, K_name)
        privileges == Get(data, K_privileges)
        assigned_users == Get(data, K_assigned_users)
    IN
    IF Truthy(name) /\ \E i \in DOMAIN table : table[i].name = name.v
    THEN Reply(400, "role name conflict", "", JNull)
    ELSE [done |-> FALSE,
          row |-> [name |-> IF Truthy(name) THEN name.v ELSE r.name,
                   privileges |-> IF privileges # JNull
                                  THEN dumps(privileges) ELSE r.privileges,
                   assigned_users |-> IF assigned_users # JNull
                                      THEN dumps(assigned_users)
                                      ELSE r.assigned_users,
                   created_at |-> r.created_at]]

\* api_update_role from the request body to the commit: the name conflict
\* check and the assignments to the loaded row r. name is a str or None.
update_role_check(role_id, body, r, table) ==
    LET data == Data(body) IN
    IF GetRaises(data) THEN Raise("AttributeError")
    ELSE
    LET name == Get(data, K_name)
        privileges == Get(data, K_privileges)
        assigned_users == Get(data, K_assigned_users)
    IN
    IF Truthy(name)
       /\ \E i \in DOMAIN table : table[i].name = name.v /\ i # role_id
    THEN Reply(400, "role name conflict", "", JNull)
    ELSE [done |-> FALSE,
          row |-> [name |-> IF Truthy(name) THEN name.v ELSE r.name,
                   privileges |-> IF privileges # JNull
                                  THEN dumps(privileges) ELSE r.privileges,
                   assigned_users |-> IF assigned_users # JNull
                                      THEN dumps(assigned_users)
                                      ELSE r.assigned_users,
                   created_at |-> r.created_at]]

\* db.session.commit() of the assignments, then r.to_dict(), which loads the
\* row again.
update_role_commit(role_id, r, plan, table) ==
    LET upd == Update(table, role_id, r, plan.row) IN
    IF ~upd.ok THEN
        [table |-> table,
         reply |-> Raise(IF role_id \in DOMAIN table
                         THEN "IntegrityError" ELSE "StaleDataError")]
    ELSE IF role_id \notin DOMAIN upd.table
    THEN [table |-> upd.table, reply |-> Raise("ObjectDeletedError")]
    ELSE [table |-> upd.table,
          reply |-> Reply(200, "", "updated",
                          role_to_dict(role_id, upd.table[role_id]))]

\* db.session.delete(r); db.session.commit()
\* A DELETE that matches no row (the row went in between) only warns.
delete_commit(id, table) ==
    [table |-> Delete(table, id), reply |-> Reply(200, "", "deleted", JNull)]

\* duplicate_role_new that copies the name and the users and leaves the
\* privileges to the column default.
duplicate_role_new_default_privileges(orig) ==
    [name |-> orig.name \o CopySuffix, privileges |-> <<"{", "}">>,
     assigned_users |-> orig.assigned_users]

\* api_duplicate_role after the source is loaded: the new Role.
duplicate_role_new(orig) ==
    [name |-> orig.name \o CopySuffix, privileges |-> orig.privileges,
     assigned_users |-> orig.assigned_users]

\* db.session.add(new); db.session.commit(); the reply.
duplicate_role_commit(orig, table, now) ==
    LET new == duplicate_role_new(orig)
        ins == Insert(table, Role(new.name, new.privileges,
                                  new.assigned_users, now))
    IN
    IF ~ins.ok THEN [table |-> table, reply |-> Raise("IntegrityError")]
    ELSE [table |-> ins.table,
          reply |-> Reply(200, "", "duplicated",
                          role_to_dict(ins.id, ins.table[ins.id]))]

\* api_add_user up to the commit. The fields are strs or None.
add_user_check(body, table) ==
    LET data == Data(body) IN
    IF GetRaises(data) THEN Raise("AttributeError")
    ELSE
    LET name == strip(Or(Get(data, K_name), JStr(<<>>)).v)
        role_name == Or(Get(data, K_role), JNull)
        email == StripOrNone(Get(data, K_email))
        phone == StripOrNone(Get(data, K_phone))
        branch == StripOrNone(Get(data, K_branch))
    IN
    IF name = <<>> THEN Reply(400, "missing name", "", JNull)
    ELSE IF \E i \in DOMAIN table : table[i].name = name
    THEN Reply(400, "user exists", "", JNull)
    ELSE [done |-> FALSE,
          row |-> [name |-> name, role |-> role_name, email |-> email,
                   phone |-> phone, branch |-> branch]]

\* db.session.add(u); db.session.commit(); the reply.
add_user_commit(plan, table, now) ==
    LET ins == Insert(table, User(plan.row.name, plan.row.role, plan.row.email,
                                  plan.row.phone, plan.row.branch, now))
    IN
    IF ~ins.ok THEN [table |-> table, reply |-> Raise("IntegrityError")]
    ELSE [table |-> ins.table,
          reply |-> Reply(200, "", "user added",
                          user_to_dict(ins.id, ins.table[ins.id]))]

\* Field that normalises the value as api_add_user does: stripped, and None
\* when empty.
Field_normalized(data, k, old) ==
    IF In(k, data) THEN StripOrNone(Get(data, k)) ELSE old

\* if k in data: u.k = data.get(k)
Field(data, k, old) == IF In(k, data) THEN Get(data, k) ELSE old

\* api_update_user from the request body to the commit. "k in data" is
\* evaluated before data.get(k), on whatever data is. The fields are strs
\* or None.
update_user_check(user_id, body, u, table) ==
    LET data == Data(body)
        keys == {K_name, K_role, K_email, K_phone, K_branch}
    IN
    IF InRaises(data) THEN Raise("TypeError")
    ELSE
    LET nm == IF In(K_name, data) /\ ~GetRaises(data)
              THEN strip(Or(Get(data, K_name), JStr(<<>>)).v) ELSE <<>>
    IN
    IF In(K_name, data) /\ GetRaises(data) THEN Raise("AttributeError")
    ELSE IF In(K_name, data) /\ nm # <<>>
            /\ \E i \in DOMAIN table : table[i].name = nm /\ i # user_id
    THEN Reply(400, "name already exists", "", JNull)
    ELSE IF GetRaises(data) /\ \E k \in keys : In(k, data)
    THEN Raise("AttributeError")
    ELSE [done |-> FALSE,
          row |-> [name |-> IF nm # <<>> THEN nm ELSE u.name,
                   role |-> Field(data, K_role, u.role),
                   email |-> Field(data, K_email, u.email),
                   phone |-> Field(data, K_phone, u.phone),
                   branch |-> Field(data, K_branch, u.branch),
                   created_at |-> u.created_at]]

\* db.session.commit() of the assignments, then u.to_dict().
update_user_commit(user_id, u, plan, table) ==
    LET upd == Update(table, user_id, u, plan.row) IN
    IF ~upd.ok THEN
        [table |-> table,
         reply |-> Raise(IF user_id \in DOMAIN table
                         THEN "IntegrityError" ELSE "StaleDataError")]
    ELSE IF user_id \notin DOMAIN upd.table
    THEN [table |-> upd.table, reply |-> Raise("ObjectDeletedError")]
    ELSE [table |-> upd.table,
          reply |-> Reply(200, "", "updated",
                          user_to_dict(user_id, upd.table[user_id]))]

----------------------------------------------------------------------------
(* The requests the model sends. *)

\* Marks a key the request body does not hold.
Absent == [t |-> "absent"]

Opt(k, j) == IF j = Absent THEN <<>> ELSE << <<k, j>> >>

N_blank == <<" ">>
N_QA == <<"Q","A">>
N_QA_padded == <<" ","Q","A"," ">>
N_Admin == <<"A","d","m","i","n">>
N_ExpUser == <<"E","x","p"," ","U","s","e","r">>
N_ExpUserCopy == <<"E","x","p"," ","U","s","e","r"," ","C","o","p","y">>
N_admin_user == <<"a","d","m","i","n","@","c","o","m","p","a","n","y",".","c","o","m">>
N_bob == <<"b","o","b">>
N_bob_padded == <<" ","b","o","b"," ">>
N_HO_padded == <<" ","H","O"," ">>
N_POSP == <<"P","O","S","P">>

\* {"POSP": ["read", "read", "update"]}
P_posp ==
    JObj(<< <<N_POSP, JArr(<<JStr(POSSIBLE_PRIVS[2]), JStr(POSSIBLE_PRIVS[2]),
                             JStr(POSSIBLE_PRIVS[3])>>)>> >>)

RoleNameInputs ==
    {Absent, JStr(N_blank), JStr(N_QA_padded), JStr(N_Admin), JStr(N_ExpUser),
     JStr(N_ExpUserCopy)}

\* <<privileges, assigned_users>> of a body: absent, null, empty and filled.
RolePayloadInputs ==
    {<<Absent, Absent>>, <<JNull, JNull>>, <<JObj(<<>>), JArr(<<>>)>>,
     <<P_posp, Absent>>, <<Absent, NameList(<<N_admin_user>>)>>}

\* JSON bodies that are no object: null, a number, strings, lists.
NonObjectBodies ==
    {JNull, JNum(7), JStr(<<"x">>), JStr(K_name), JArr(<<>>), JArr(<<JNum(1)>>)}

RoleBodies ==
    {JObj(Opt(K_name, n) \o Opt(K_privileges, pa[1])
          \o Opt(K_assigned_users, pa[2])) :
        n \in RoleNameInputs, pa \in RolePayloadInputs}
    \cup NonObjectBodies

\* Ids in request paths: a seeded row, and the first row created.
RoleIdInputs == {3, Len(<<r1, r2, r3, r4, r5, r6, r7, r8>>) + 1}

UserNameInputs == {Absent, JStr(N_blank), JStr(N_admin_user), JStr(N_bob_padded)}

\* <<role, email, phone, branch>> of a body.
UserPayloadInputs ==
    {<<Absent, Absent, Absent, Absent>>,
     <<JNull, JStr(<<>>), Absent, JStr(N_HO_padded)>>,
     <<JStr(N_Admin), Absent, JStr(<<"1">>), JNull>>}

UserBodies ==
    {JObj(Opt(K_name, n) \o Opt(K_role, f[1]) \o Opt(K_email, f[2])
          \o Opt(K_phone, f[3]) \o Opt(K_branch, f[4])) :
        n \in UserNameInputs, f \in UserPayloadInputs}
    \cup NonObjectBodies

UserIdInputs == {1, Len(users_seed) + 1}

----------------------------------------------------------------------------
(* State. roles and users are the tables of rbac.db. clock counts the       *)
(* requests begun and is the time created_at is taken from. resp is the     *)
(* last request handled as a whole, with its reply. procs holds the         *)
(* requests of the two server threads that are handled step by step.        *)

Procs == {"t1", "t2"}

Idle ==
    [pc |-> "idle", op |-> "none", id |-> 0, body |-> JNull, serial |-> 0,
     with |-> {}, fresh |-> FALSE, loaded |-> JNull, plan |-> JNull,
     reply |-> JNull]

NoRequest ==
    [op |-> "none", id |-> 0, body |-> JNull, status |-> 0, error |-> "",
     message |-> "", record |-> JNull]

Respond(op, id, body, reply) ==
    [op |-> op, id |-> id, body |-> body, status |-> reply.status,
     error |-> reply.error, message |-> reply.message,
     record |-> reply.record]

NotFound == Reply(404, "not found", "", JNull)

\* The startup block on a new rbac.db: create_all and the two seedings.
Init ==
    /\ users = SeedUsers(EmptyTable)
    /\ roles = SeedRoles(EmptyTable)
    /\ clock = 0
    /\ resp = NoRequest
    /\ procs = [p \in Procs |-> Idle]

----------------------------------------------------------------------------
(* The handlers, each request handled as a whole. *)

\* POST /api/roles
api_create_role(body) ==
    /\ clock < MaxOps
    /\ LET c == create_role_check(body, roles)
           out == IF c.done THEN [table |-> roles, reply |-> c]
                  ELSE create_role_commit(c, roles, clock + 1)
       IN /\ roles' = out.table
          /\ resp' = Respond("create_role", 0, body, out.reply)
    /\ clock' = clock + 1
    /\ UNCHANGED <<users, procs>>

\* PUT /api/roles/<role_id>
api_update_role(role_id, body) ==
    /\ clock < MaxOps
    /\ LET out ==
             IF role_id \notin Ids(roles)
             THEN [table |-> roles, reply |-> NotFound]
             ELSE LET r == QueryGet(roles, role_id)
                      c == update_role_check(role_id, body, r, roles)
                  IN IF c.done THEN [table |-> roles, reply |-> c]
                     ELSE update_role_commit(role_id, r, c, roles)
       IN /\ roles' = out.table
          /\ resp' = Respond("update_role", role_id, body, out.reply)
    /\ clock' = clock + 1
    /\ UNCHANGED <<users, procs>>

\* DELETE /api/roles/<role_id>
api_delete_role(role_id) ==
    /\ clock < MaxOps
    /\ LET out ==
             IF role_id \notin Ids(roles)
             THEN [table |-> roles, reply |-> NotFound]
             ELSE delete_commit(role_id, roles)
       IN /\ roles' = out.table
          /\ resp' = Respond("delete_role", role_id, JNull, out.reply)
    /\ clock' = clock + 1
    /\ UNCHANGED <<users, procs>>

\* POST /api/roles/<role_id>/duplicate
api_duplicate_role(role_id) ==
    /\ clock < MaxOps
    /\ LET out ==
             IF role_id \notin Ids(roles)
             THEN [table |-> roles, reply |-> NotFound]
             ELSE duplicate_role_commit(QueryGet(roles, role_id), roles,
                                        clock + 1)
       IN /\ roles' = out.table
          /\ resp' = Respond("duplicate_role", role_id, JNull, out.reply)
    /\ clock' = clock + 1
    /\ UNCHANGED <<users, procs>>

\* POST /api/users
api_add_user(body) ==
    /\ clock < MaxOps
    /\ LET c == add_user_check(body, users)
           out == IF c.done THEN [table |-> users, reply |-> c]
                  ELSE add_user_commit(c, users, clock + 1)
       IN /\ users' = out.table
          /\ resp' = Respond("add_user", 0, body, out.reply)
    /\ clock' = clock + 1
    /\ UNCHANGED <<roles, procs>>

\* PUT /api/users/<user_id>
api_update_user(user_id, body) ==
    /\ clock < MaxOps
    /\ LET out ==
             IF user_id \notin Ids(users)
             THEN [table |-> users, reply |-> NotFound]
             ELSE LET u == QueryGet(users, user_id)
                      c == update_user_check(user_id, body, u, users)
                  IN IF c.done THEN [table |-> users, reply |-> c]
                     ELSE update_user_commit(user_id, u, c, users)
       IN /\ users' = out.table
          /\ resp' = Respond("update_user", user_id, body, out.reply)
    /\ clock' = clock + 1
    /\ UNCHANGED <<roles, procs>>

\* api_delete_user that also takes the user's name out of every role's
\* assigned_users.
api_delete_user_cascade(user_id) ==
    /\ clock < MaxOps
    /\ LET found == user_id \in Ids(users)
           out == IF found THEN delete_commit(user_id, users)
                  ELSE [table |-> users, reply |-> NotFound]
           Others(txt) ==
               LET xs == LoadColumn(txt, <<"[", "]">>).v IN
               dumps(JArr(SelectSeq(xs,
                          LAMBDA x : x # JStr(users[user_id].name))))
       IN /\ users' = out.table
          /\ roles' = IF found
                      THEN [i \in Ids(roles) |->
                              [roles[i] EXCEPT !.assigned_users = Others(@)]]
                      ELSE roles
          /\ resp' = Respond("delete_user", user_id, JNull, out.reply)
    /\ clock' = clock + 1
    /\ UNCHANGED procs

\* DELETE /api/users/<user_id>
api_delete_user(user_id) ==
    /\ clock < MaxOps
    /\ LET out ==
             IF user_id \notin Ids(users)
             THEN [table |-> users, reply |-> NotFound]
             ELSE delete_commit(user_id, users)
       IN /\ users' = out.table
          /\ resp' = Respond("delete_user", user_id, JNull, out.reply)
    /\ clock' = clock + 1
    /\ UNCHANGED <<roles, procs>>

Next ==
    \/ \E body \in RoleBodies : api_create_role(body)
    \/ \E id \in RoleIdInputs, body \in RoleBodies : api_update_role(id, body)
    \/ \E id \in RoleIdInputs : api_delete_role(id)
    \/ \E id \in RoleIdInputs : api_duplicate_role(id)
    \/ \E body \in UserBodies : api_add_user(body)
    \/ \E id \in UserIdInputs, body \in UserBodies : api_update_user(id, body)
    \/ \E id \in UserIdInputs : api_delete_user(id)

Spec == Init /\ [][Next]_vars

----------------------------------------------------------------------------
(* The handlers step by step: two server threads, each handling one request *)
(* at a time, their queries and commits interleaved. A thread's record      *)
(* keeps the request, the row its query loaded, what its commit is to       *)
(* write and, once done, the reply. serial numbers the requests; with holds *)
(* the serials of the requests in flight together with this one, and fresh  *)
(* tells whether a create's name was free when the request began.           *)

RoleOps == {"create_role", "update_role", "delete_role", "duplicate_role"}

CreateOps == {"create_role", "add_user"}

UpdateOps == {"update_role", "update_user"}

Request(op, id, body) == [op |-> op, id |-> id, body |-> body]

ConcRequests ==
    {Request("create_role", 0, JObj(Opt(K_name, JStr(N_QA_padded)))),
     Request("update_role", 3, JObj(Opt(K_name, JStr(N_QA)))),
     Request("create_role", 0, JObj(Opt(K_name, JStr(N_QA)))),
     Request("delete_role", 3, JNull),
     Request("duplicate_role", 3, JNull),
     Request("add_user", 0, JObj(Opt(K_name, JStr(N_bob_padded)))),
     Request("update_user", 1, JObj(Opt(K_name, JStr(N_bob)))),
     Request("delete_user", 1, JNull)}

InFlight == {p \in Procs : procs[p].pc \in {"get", "check", "commit"}}

TableOf(op) == IF op \in RoleOps THEN roles ELSE users

\* The name a create request asks for is free in the table at this moment.
NameFree(req) ==
    CASE req.op = "create_role" -> ~create_role_check(req.body, roles).done
      [] req.op = "add_user" -> ~add_user_check(req.body, users).done
      [] OTHER -> FALSE

\* A thread takes a request.
Begin(p, req) ==
    /\ clock < MaxConcOps
    /\ procs[p].pc \in {"idle", "done"}
    /\ procs' =
         [q \in Procs |->
            IF q = p
            THEN [pc |-> IF req.op \in CreateOps THEN "check" ELSE "get",
                  op |-> req.op, id |-> req.id, body |-> req.body,
                  serial |-> clock + 1,
                  with |-> {procs[o].serial : o \in InFlight},
                  fresh |-> NameFree(req), loaded |-> JNull, plan |-> JNull,
                  reply |-> JNull]
            ELSE IF q \in InFlight
            THEN [procs[q] EXCEPT !.with = @ \cup {clock + 1}]
            ELSE procs[q]]
    /\ clock' = clock + 1
    /\ UNCHANGED <<roles, users, resp>>

\* Role.query.get(role_id) / User.query.get(user_id), and the 404.
StepGet(p) ==
    LET me == procs[p]
        table == TableOf(me.op)
    IN
    /\ me.pc = "get"
    /\ procs' =
         [procs EXCEPT ![p] =
            IF me.id \notin Ids(table)
            THEN [me EXCEPT !.pc = "done", !.reply = NotFound]
            ELSE [me EXCEPT !.pc = IF me.op \in UpdateOps
                                   THEN "check" ELSE "commit",
                            !.loaded = QueryGet(table, me.id)]]
    /\ UNCHANGED <<roles, users, clock, resp>>

\* The handler from the request body to the commit: the name look-up.
StepCheck(p) ==
    LET me == procs[p]
        c == CASE me.op = "create_role" -> create_role_check(me.body, roles)
               [] me.op = "update_role" ->
                    update_role_check(me.id, me.body, me.loaded, roles)
               [] me.op = "add_user" -> add_user_check(me.body, users)
               [] OTHER -> update_user_check(me.id, me.body, me.loaded, users)
    IN
    /\ me.pc = "check"
    /\ procs' =
         [procs EXCEPT ![p] =
            IF c.done THEN [me EXCEPT !.pc = "done", !.reply = c]
            ELSE [me EXCEPT !.pc = "commit", !.plan = c]]
    /\ UNCHANGED <<roles, users, clock, resp>>

\* db.session.commit() and the reply.
StepCommit(p) ==
    LET me == procs[p]
        out == CASE me.op = "create_role" ->
                      create_role_commit(me.plan, roles, clock)
                 [] me.op = "update_role" ->
                      update_role_commit(me.id, me.loaded, me.plan, roles)
                 [] me.op = "delete_role" -> delete_commit(me.id, roles)
                 [] me.op = "duplicate_role" ->
                      duplicate_role_commit(me.loaded, roles, clock)
                 [] me.op = "add_user" ->
                      add_user_commit(me.plan, users, clock)
                 [] me.op = "update_user" ->
                      update_user_commit(me.id, me.loaded, me.plan, users)
                 [] OTHER -> delete_commit(me.id, users)
    IN
    /\ me.pc = "commit"
    /\ roles' = IF me.op \in RoleOps THEN out.table ELSE roles
    /\ users' = IF me.op \in RoleOps THEN users ELSE out.table
    /\ procs' = [procs EXCEPT ![p] = [me EXCEPT !.pc = "done",
                                                !.reply = out.reply]]
    /\ UNCHANGED <<clock, resp>>

NextConc ==
    \/ \E p \in Procs, req \in ConcRequests : Begin(p, req)
    \/ \E p \in Procs : StepGet(p)
    \/ \E p \in Procs : StepCheck(p)
    \/ \E p \in Procs : StepCommit(p)

SpecConc == Init /\ [][NextConc]_vars

----------------------------------------------------------------------------
(* Properties. *)

NameCount(table, name) ==
    Cardinality({i \in Ids(table) : table[i].name = name})

Done(p) == procs[p].pc = "done"

Failed(p, exception) ==
    /\ Done(p)
    /\ procs[p].reply.status = 500
    /\ procs[p].reply.error = exception

\* C1: in every state reached by create, update, delete and duplicate
\* requests on roles, interleaved in any way, no two stored roles have the
\* same name.
RoleNamesUnique ==
    \A i, j \in Ids(roles) : i # j => roles[i].name # roles[j].name

\* A duplicate lost to the unique name: its INSERT raised IntegrityError.
RoleNameRejected ==
    \E p \in Procs : procs[p].op = "duplicate_role" /\ Failed(p, "IntegrityError")

\* The name a create request asks for: (data.get("name") or "").strip().
RequestedName(body) == strip(Or(Get(Data(body), K_name), JStr(<<>>)).v)

\* Two role creates for one name, free when each began, in flight together.
RacingCreates(p, q) ==
    /\ p # q
    /\ Done(p) /\ Done(q)
    /\ procs[p].op = "create_role" /\ procs[q].op = "create_role"
    /\ procs[q].serial \in procs[p].with
    /\ procs[p].fresh /\ procs[q].fresh
    /\ RequestedName(procs[p].body) = RequestedName(procs[q].body)

\* C2: of two concurrent role creates for one name that was free, exactly
\* one is answered 200 and exactly one role of that name is stored once both
\* are done.
ConcurrentCreateOneWins ==
    \A p, q \in Procs :
        RacingCreates(p, q) =>
            /\ (procs[p].reply.status = 200) # (procs[q].reply.status = 200)
            /\ NameCount(roles, RequestedName(procs[p].body)) = 1

\* Both creates passed the name look-up, and the second commit was refused.
CreateRaceLost ==
    \E p, q \in Procs :
        /\ RacingCreates(p, q)
        /\ procs[p].reply.status = 200
        /\ Failed(q, "IntegrityError")

\* C3: in every state reached by create, update and delete requests on
\* users, interleaved in any way, no two stored users have the same name.
UserNamesUnique ==
    \A i, j \in Ids(users) : i # j => users[i].name # users[j].name

\* A user's rename lost to the unique name: its UPDATE raised IntegrityError.
UserNameRejected ==
    \E p \in Procs : procs[p].op = "update_user" /\ Failed(p, "IntegrityError")

----------------------------------------------------------------------------
(* Properties of the handlers, each request handled as a whole: resp' is   *)
(* the request of the step and its reply, roles and users the tables        *)
(* before it, roles' and users' the tables after it.                       *)

IsObject(j) == j.t = "obj"

\* The value a request body gives for k: Absent when the body is no object
\* or lacks the key.
Given(body, k) ==
    IF IsObject(body) /\ HasKey(body, k) THEN Get(body, k) ELSE Absent

Sent(body, k) == Given(body, k) \notin {Absent, JNull}

Privileges(r) == LoadColumn(r.privileges, <<"{", "}">>)

AssignedUsers(r) == LoadColumn(r.assigned_users, <<"[", "]">>)

\* The step adds one row, under an id no row had, and changes no other row.
AddsOne(before, after, new) ==
    /\ new \notin Ids(before)
    /\ Ids(after) = Ids(before) \cup {new}
    /\ \A i \in Ids(before) : after[i] = before[i]

\* The step changes no row but the one under id, and adds or removes none.
OnlyRow(before, after, id) ==
    /\ Ids(after) = Ids(before)
    /\ \A i \in Ids(before) \ {id} : after[i] = before[i]

DuplicateOfExisting ==
    resp'.op = "duplicate_role" /\ resp'.id \in Ids(roles)

\* The effect C4 describes: one new role, named after the source, with the
\* source's privileges and assigned_users; nothing else changed.
Duplicated ==
    \E new \in Ids(roles') :
        /\ AddsOne(roles, roles', new)
        /\ roles'[new].name = roles[resp'.id].name \o CopySuffix
        /\ Privileges(roles'[new]) = Privileges(roles[resp'.id])
        /\ AssignedUsers(roles'[new]) = AssignedUsers(roles[resp'.id])

\* C4 as stated: duplicate(id) on an existing role adds the copy in every
\* reachable state.
DuplicateAlwaysAddsCopy == [][DuplicateOfExisting => Duplicated]_vars

\* C4, amended: duplicate(id) on an existing role adds the copy, answered
\* 200, when no stored role is named "<source name> Copy"; when one is, the
\* request fails and the store is unchanged.
DuplicateAddsCopyUnlessNameTaken ==
    [][DuplicateOfExisting =>
         IF roles[resp'.id].name \o CopySuffix \in Names(roles)
         THEN roles' = roles /\ resp'.status # 200
         ELSE Duplicated /\ resp'.status = 200]_vars

\* A duplicate has been made: the copy of role 3 is stored under a new id.
DuplicateMade ==
    /\ resp.op = "duplicate_role" /\ resp.status = 200
    /\ \E new \in Ids(roles) \ {resp.id} :
         /\ roles[new].name = roles[resp.id].name \o CopySuffix
         /\ Privileges(roles[new]) = Privileges(roles[resp.id])
         /\ Privileges(roles[new]) # JObj(<<>>)

UpdateOfExistingRole ==
    resp'.op = "update_role" /\ resp'.id \in Ids(roles)

\* C5: an update of an existing role changes no other row and neither the
\* id nor created_at; a field not sent (no key, or null) keeps its stored
\* value; privileges or assigned_users sent, {} and [] included, are what is
\* stored once the update is answered 200.
UpdateRoleChangesOnlySentFields ==
    [][UpdateOfExistingRole =>
         LET id == resp'.id
             body == resp'.body
         IN /\ OnlyRow(roles, roles', id)
            /\ roles'[id].created_at = roles[id].created_at
            /\ ~Sent(body, K_name) => roles'[id].name = roles[id].name
            /\ ~Sent(body, K_privileges) =>
                 roles'[id].privileges = roles[id].privileges
            /\ ~Sent(body, K_assigned_users) =>
                 roles'[id].assigned_users = roles[id].assigned_users
            /\ (resp'.status = 200 /\ Sent(body, K_privileges)) =>
                 Privileges(roles'[id]) = Given(body, K_privileges)
            /\ (resp'.status = 200 /\ Sent(body, K_assigned_users)) =>
                 AssignedUsers(roles'[id]) = Given(body, K_assigned_users)]_vars

\* An update sent "privileges": {} and "assigned_users": [] without a name:
\* the role kept its name and both fields are stored empty.
PrivilegesCleared ==
    /\ resp.op = "update_role" /\ resp.status = 200
    /\ Given(resp.body, K_name) = Absent
    /\ Given(resp.body, K_privileges) = JObj(<<>>)
    /\ Given(resp.body, K_assigned_users) = JArr(<<>>)
    /\ roles[resp.id].name = r3.name
    /\ Privileges(roles[resp.id]) = JObj(<<>>)
    /\ AssignedUsers(roles[resp.id]) = JArr(<<>>)

\* C6: an update whose name another role holds is answered 400 "role name
\* conflict" and changes nothing, whatever else it carries; an update to
\* the role's own name is answered 200.
UpdateRoleNameConflict ==
    [][(UpdateOfExistingRole /\ Sent(resp'.body, K_name)) =>
         LET id == resp'.id
             name == Given(resp'.body, K_name).v
         IN /\ (\E i \in Ids(roles) \ {id} : roles[i].name = name) =>
                 /\ resp'.status = 400
                 /\ resp'.error = "role name conflict"
                 /\ roles' = roles
            /\ roles[id].name = name =>
                 /\ resp'.status = 200
                 /\ roles'[id].name = name]_vars

\* A conflicting rename that also carried privileges was refused.
ConflictRefused ==
    /\ resp.op = "update_role" /\ resp.error = "role name conflict"
    /\ Sent(resp.body, K_privileges)
    /\ Privileges(roles[resp.id]) # Given(resp.body, K_privileges)

RoleRequests == {"create_role", "update_role", "delete_role", "duplicate_role"}

UserRequests == {"add_user", "update_user", "delete_user"}

\* C7: a request on users leaves the role table as it was and a request on
\* roles leaves the user table as it was.
NoCrossEntityEffect ==
    [][/\ resp'.op \in UserRequests => roles' = roles
       /\ resp'.op \in RoleRequests => users' = users]_vars

\* A user was deleted and a role still lists the name.
DanglingAssignedUser ==
    /\ resp.op = "delete_user" /\ resp.status = 200
    /\ \E i \in Ids(roles) :
         \E n \in 1..Len(AssignedUsers(roles[i]).v) :
            AssignedUsers(roles[i]).v[n].v \notin Names(users)

\* C8: create without a name, or with one that trims to empty, is answered
\* 400 "missing name"; with the trimmed name of a stored role, 400 "role
\* exists"; the store is unchanged in both. Otherwise one role is added,
\* with the trimmed name and with the privileges (a mapping) and
\* assigned_users (a sequence) given, empty when not given.
CreateRoleContract ==
    [][(/\ resp'.op = "create_role"
        /\ IsObject(resp'.body)
        /\ Given(resp'.body, K_privileges).t \in {"absent", "null", "obj"}
        /\ Given(resp'.body, K_assigned_users).t \in {"absent", "null", "arr"})
       =>
         LET body == resp'.body
             name == IF Sent(body, K_name)
                     THEN strip(Given(body, K_name).v) ELSE <<>>
         IN IF name = <<>>
            THEN /\ resp'.status = 400 /\ resp'.error = "missing name"
                 /\ roles' = roles
            ELSE IF name \in Names(roles)
            THEN /\ resp'.status = 400 /\ resp'.error = "role exists"
                 /\ roles' = roles
            ELSE /\ resp'.status = 200
                 /\ \E new \in Ids(roles') :
                      /\ AddsOne(roles, roles', new)
                      /\ roles'[new].name = name
                      /\ Privileges(roles'[new]) =
                           (IF Sent(body, K_privileges)
                            THEN Given(body, K_privileges) ELSE JObj(<<>>))
                      /\ AssignedUsers(roles'[new]) =
                           (IF Sent(body, K_assigned_users)
                            THEN Given(body, K_assigned_users)
                            ELSE JArr(<<>>))]_vars

\* A role was created from a padded name and given privileges: it is stored
\* under the trimmed name with those privileges and no assigned users.
RoleCreatedTrimmed ==
    /\ resp.op = "create_role" /\ resp.status = 200
    /\ Given(resp.body, K_name) = JStr(N_QA_padded)
    /\ Given(resp.body, K_privileges) = P_posp
    /\ \E i \in Ids(roles) :
         /\ roles[i].name = N_QA
         /\ Privileges(roles[i]) = P_posp
         /\ AssignedUsers(roles[i]) = JArr(<<>>)

UserColumns ==
    {<<K_role, "role">>, <<K_email, "email">>, <<K_phone, "phone">>,
     <<K_branch, "branch">>}

\* C9: an update of an existing user changes no other row and neither the
\* id nor created_at. A name held by another user: 400, nothing changed.
\* Otherwise 200; the name becomes the trimmed name sent, or stays when no
\* name is sent or it trims to empty; role, email, phone and branch take
\* the value sent, null and "" included, and stay when their key is absent.
UpdateUserContract ==
    [][(/\ resp'.op = "update_user"
        /\ resp'.id \in Ids(users)
        /\ IsObject(resp'.body))
       =>
         LET id == resp'.id
             body == resp'.body
             nm == IF Sent(body, K_name)
                   THEN strip(Given(body, K_name).v) ELSE <<>>
         IN /\ OnlyRow(users, users', id)
            /\ users'[id].created_at = users[id].created_at
            /\ IF nm # <<>> /\ \E i \in Ids(users) \ {id} : users[i].name = nm
               THEN resp'.status = 400 /\ users' = users
               ELSE /\ resp'.status = 200
                    /\ users'[id].name =
                         (IF nm # <<>> THEN nm ELSE users[id].name)
                    /\ \A kc \in UserColumns :
                         users'[id][kc[2]] =
                           (IF HasKey(body, kc[1]) THEN Get(body, kc[1])
                            ELSE users[id][kc[2]])]_vars

\* An update sent a blank name with role null, email "" and a padded
\* branch: the name stayed and the three fields are stored as sent.
BlankNameKept ==
    /\ resp.op = "update_user" /\ resp.status = 200
    /\ Given(resp.body, K_name) = JStr(N_blank)
    /\ users[resp.id].name = N_admin_user
    /\ users[resp.id].role = JNull
    /\ users[resp.id].email = JStr(<<>>)
    /\ users[resp.id].branch = JStr(N_HO_padded)
    /\ users[resp.id].phone = users_seed[1].phone

\* C10: on create and update, a body that is JSON but no object is answered
\* as {} is: create with 400 "missing name", update of an existing record
\* with 200 and the record as it was; the store is unchanged.
NonObjectBodyAsEmptyObject ==
    [][(/\ resp'.op \in {"create_role", "add_user", "update_role",
                          "update_user"}
        /\ ~IsObject(resp'.body))
       =>
         /\ roles' = roles
         /\ users' = users
         /\ resp'.op \in {"create_role", "add_user"} =>
              resp'.status = 400 /\ resp'.error = "missing name"
         /\ (resp'.op = "update_role" /\ resp'.id \in Ids(roles)) =>
              /\ resp'.status = 200
              /\ resp'.record = role_to_dict(resp'.id, roles[resp'.id])
         /\ (resp'.op = "update_user" /\ resp'.id \in Ids(users)) =>
              /\ resp'.status = 200
              /\ resp'.record = user_to_dict(resp'.id, users[resp'.id])]_vars

\* The name a request would store collides with another record's name.
\* roles and users are the tables before the step, resp' its request.
WouldRepeatName ==
    LET body == resp'.body
        id == resp'.id
        trimmed == IF IsObject(body) /\ Sent(body, K_name)
                   THEN strip(Given(body, K_name).v) ELSE <<>>
    IN
    CASE resp'.op = "create_role" -> trimmed \in Names(roles)
      [] resp'.op = "update_role" ->
           /\ id \in Ids(roles) /\ IsObject(body) /\ Sent(body, K_name)
           /\ \E i \in Ids(roles) \ {id} :
                roles[i].name = Given(body, K_name).v
      [] resp'.op = "duplicate_role" ->
           /\ id \in Ids(roles)
           /\ roles[id].name \o CopySuffix \in Names(roles)
      [] resp'.op = "add_user" -> trimmed \in Names(users)
      [] resp'.op = "update_user" ->
           /\ id \in Ids(users)
           /\ \E i \in Ids(users) \ {id} : users[i].name = trimmed
      [] OTHER -> FALSE

\* C11: requests handled one at a time, a create, update or duplicate that
\* would give a record the name of another record of its type is answered
\* 400 with an error body, never with an unhandled storage failure, and
\* leaves the store unchanged.
NameCollisionAnswered400 ==
    [][WouldRepeatName =>
         /\ resp'.status = 400
         /\ resp'.error # ""
         /\ roles' = roles
         /\ users' = users]_vars

\* C15: every stored role name is non-empty and equal to its trimmed form.
RoleNamesTrimmed ==
    \A i \in Ids(roles) : roles[i].name # <<>> /\ strip(roles[i].name) = roles[i].name

----------------------------------------------------------------------------
(* The process stopped and started again on the rbac.db it left behind.     *)

\* The table with only the rows under the ids in S left: what DELETE
\* requests on the other rows leave.
Keep(table, S) == [i \in Ids(table) \cap S |-> table[i]]

\* The rows earlier runs left of the seeded tables: all, or a single one.
RolesLeftInputs == {Ids(SeedRoles(EmptyTable)), {3}}

UsersLeftInputs == {Ids(SeedUsers(EmptyTable)), {1}}

\* created_at defaults to the time of the INSERT.
Stamp(table, now) ==
    [i \in Ids(table) |-> [table[i] EXCEPT !.created_at = now]]

\* The startup block on the rbac.db found: each table is seeded if it holds
\* no row.
startup ==
    /\ clock < MaxOps
    /\ users' = IF Ids(users) = {}
                THEN Stamp(SeedUsers(users), clock + 1) ELSE users
    /\ roles' = IF Ids(roles) = {}
                THEN Stamp(SeedRoles(roles), clock + 1) ELSE roles
    /\ resp' = Respond("startup", 0, JNull, Reply(0, "", "", JNull))
    /\ clock' = clock + 1
    /\ UNCHANGED procs

\* A process started on a store that earlier runs left.
InitRestart ==
    /\ users \in {Keep(SeedUsers(EmptyTable), S) : S \in UsersLeftInputs}
    /\ roles \in {Keep(SeedRoles(EmptyTable), S) : S \in RolesLeftInputs}
    /\ clock = 0
    /\ resp = NoRequest
    /\ procs = [p \in Procs |-> Idle]

NextRestart ==
    \/ Next
    \/ startup

SpecRestart == InitRestart /\ [][NextRestart]_vars

\* C12: a name that is not stored, the name of a deleted role in
\* particular, enters the role table only by a create, update or duplicate
\* request, process restarts with their seeding included; likewise a user
\* name enters the user table only by a create or update request.
DeletedStaysDeleted ==
    [][/\ Names(roles') \ Names(roles) # {} =>
            resp'.op \in {"create_role", "update_role", "duplicate_role"}
       /\ Names(users') \ Names(users) # {} =>
            resp'.op \in {"add_user", "update_user"}]_vars

----------------------------------------------------------------------------
(* The list endpoints.                                                      *)

UpperCase ==
    <<"A","B","C","D","E","F","G","H","I","J","K","L","M",
      "N","O","P","Q","R","S","T","U","V","W","X","Y","Z">>

LowerCase ==
    <<"a","b","c","d","e","f","g","h","i","j","k","l","m",
      "n","o","p","q","r","s","t","u","v","w","x","y","z">>

\* str.lower(), and the case folding of ilike.
lower(s) ==
    [k \in 1..Len(s) |->
        IF \E i \in DOMAIN UpperCase : UpperCase[i] = s[k]
        THEN LowerCase[CHOOSE i \in DOMAIN UpperCase : UpperCase[i] = s[k]]
        ELSE s[k]]

\* SQLite's LIKE without an ESCAPE clause: % stands for any run of
\* characters, _ for any one character, every other character for itself.
RECURSIVE Like(_, _)
Like(s, pattern) ==
    IF pattern = <<>> THEN s = <<>>
    ELSE IF Head(pattern) = "%"
    THEN \/ Like(s, Tail(pattern))
         \/ s # <<>> /\ Like(Tail(s), pattern)
    ELSE /\ s # <<>>
         /\ Head(pattern) = "_" \/ Head(pattern) = Head(s)
         /\ Like(Tail(s), Tail(pattern))

\* column.ilike(f"%{q}%") on a text column: lower(column) LIKE lower(pattern).
ilike(column, q) == Like(lower(column), lower(<<"%">> \o q \o <<"%">>))

\* The same on a nullable column, whose value may be NULL.
ilike_nullable(j, q) == j.t = "str" /\ ilike(j.v, q)

\* order_by(id): the ids in S in ascending order.
RECURSIVE order_by_id(_)
order_by_id(S) ==
    IF S = {} THEN <<>>
    ELSE LET least == CHOOSE i \in S : \A j \in S : i <= j
         IN <<least>> \o order_by_id(S \ {least})

\* The element of set(v) that a list entry is: True == 1 and False == 0.
Hashed(j) == IF j.t = "bool" THEN JNum(IF j.v THEN 1 ELSE 0) ELSE j

\* len(set(v)) raises TypeError: v is not iterable, or an entry of the list
\* is unhashable.
set_raises(v) ==
    \/ v.t \in {"null", "bool", "num"}
    \/ v.t = "arr" /\ \E i \in 1..Len(v.v) : v.v[i].t \in {"arr", "obj"}

\* len(set(v)) with duplicates counted.
len_set_with_duplicates(v) == Len(v.v)

\* len(set(v)): the distinct entries of a list, the distinct characters of
\* a string, the keys of a dict.
len_set(v) ==
    CASE v.t = "arr" -> Cardinality({Hashed(v.v[i]) : i \in 1..Len(v.v)})
      [] v.t = "str" -> Cardinality({v.v[i] : i \in 1..Len(v.v)})
      [] v.t = "obj" -> Len(v.v)

RECURSIVE sum(_)
sum(xs) == IF xs = <<>> THEN 0 ELSE Head(xs) + sum(Tail(xs))

\* The exception Role.to_summary ends in, "" if none: privs.values() on a
\* value that is no dict, len(set(v)) on a value that is no collection.
to_summary_raises(r) ==
    LET privs == LoadColumn(r.privileges, <<"{", "}">>) IN
    IF privs.t # "obj" THEN "AttributeError"
    ELSE IF \E k \in 1..Len(privs.v) : set_raises(privs.v[k][2])
    THEN "TypeError"
    ELSE ""

to_summary(id, r) ==
    LET privs == LoadColumn(r.privileges, <<"{", "}">>)
        priv_count == sum([k \in 1..Len(privs.v) |-> len_set(privs.v[k][2])])
    IN
    JObj(<< <<<<"i","d">>, JNum(id)>>,
            <<<<"n","a","m","e">>, JStr(r.name)>>,
            <<<<"p","r","i","v","i","l","e","g","e","s","_","c","o","u","n","t">>, JNum(priv_count)>>,
            <<<<"m","o","d","u","l","e","s","_","c","o","u","n","t">>, JNum(Len(privs.v))>>,
            <<<<"c","r","e","a","t","e","d","_","a","t">>, JNum(r.created_at)>>,
            <<<<"a","s","s","i","g","n","e","d","_","u","s","e","r","s">>, LoadColumn(r.assigned_users, <<"[", "]">>)>> >>)

\* GET /api/roles?q=
api_get_roles(arg) ==
    LET q == lower(strip(arg))
        rows == order_by_id({i \in Ids(roles) :
                               q # <<>> => ilike(roles[i].name, q)})
        raising == {k \in 1..Len(rows) : to_summary_raises(roles[rows[k]]) # ""}
        first == CHOOSE k \in raising : \A j \in raising : k <= j
    IN
    /\ clock < MaxOps
    /\ resp' = Respond("get_roles", 0, JStr(arg),
                 IF raising # {}
                 THEN Raise(to_summary_raises(roles[rows[first]]))
                 ELSE Reply(200, "", "",
                        JArr([k \in 1..Len(rows) |->
                                to_summary(rows[k], roles[rows[k]])])))
    /\ clock' = clock + 1
    /\ UNCHANGED <<roles, users, procs>>

\* GET /api/users?q=
api_get_users(arg) ==
    LET q == lower(strip(arg))
        rows == order_by_id({i \in Ids(users) :
                    q # <<>> =>
                        \/ ilike(users[i].name, q)
                        \/ ilike_nullable(users[i].email, q)
                        \/ ilike_nullable(users[i].role, q)
                        \/ ilike_nullable(users[i].branch, q)})
    IN
    /\ clock < MaxOps
    /\ resp' = Respond("get_users", 0, JStr(arg),
                 Reply(200, "", "",
                   JArr([k \in 1..Len(rows) |->
                           user_to_dict(rows[k], users[rows[k]])])))
    /\ clock' = clock + 1
    /\ UNCHANGED <<roles, users, procs>>

\* {"A": ["read", "read"], "B": ["read"], "C": []}
P_modules ==
    JObj(<< <<<<"A">>, JArr(<<JStr(POSSIBLE_PRIVS[2]), JStr(POSSIBLE_PRIVS[2])>>)>>,
            <<<<"B">>, JArr(<<JStr(POSSIBLE_PRIVS[2])>>)>>,
            <<<<"C">>, JArr(<<>>)>> >>)

\* Privileges of a body: not sent, mappings of modules to lists, a list,
\* a mapping of a module to a number.
PrivilegesInputs ==
    {Absent, P_posp, P_modules, JArr(<<JNum(1)>>),
     JObj(<< <<N_POSP, JNum(5)>> >>)}

ListedRoleBodies ==
    {JObj(Opt(K_name, n) \o Opt(K_privileges, p)) :
        n \in {Absent, JStr(N_QA)}, p \in PrivilegesInputs}

\* A user with only a name, and one with a role and a branch.
ListedUserBodies ==
    {JObj(<< <<K_name, JStr(N_bob)>> >>),
     JObj(<< <<K_name, JStr(N_bob_padded)>>, <<K_role, JStr(N_Admin)>>,
             <<K_branch, JStr(N_HO_padded)>> >>)}

\* ?q= of a role list request.
RoleQueryInputs == {<<>>, <<"u","s","e","r">>, N_QA_padded}

\* ?q= of a user list request.
UserQueryInputs ==
    {<<>>, <<"b","r","a","n","c","h">>, N_HO_padded, N_bob, <<"_">>, <<"%">>}

NextList ==
    \/ \E body \in ListedRoleBodies : api_create_role(body)
    \/ \E id \in RoleIdInputs, body \in ListedRoleBodies : api_update_role(id, body)
    \/ \E id \in RoleIdInputs : api_delete_role(id)
    \/ \E id \in RoleIdInputs : api_duplicate_role(id)
    \/ \E body \in ListedUserBodies : api_add_user(body)
    \/ \E id \in UserIdInputs, body \in ListedUserBodies : api_update_user(id, body)
    \/ \E id \in UserIdInputs : api_delete_user(id)
    \/ \E q \in RoleQueryInputs : api_get_roles(q)
    \/ \E q \in UserQueryInputs : api_get_users(q)

SpecList == Init /\ [][NextList]_vars

----------------------------------------------------------------------------
(* The list endpoints: properties.                                          *)

\* The last request was a role list that was answered.
RolesListed == resp.op = "get_roles" /\ resp.status = 200

\* The ids of the records of a list reply, in the order of the reply.
ListedIds == [n \in 1..Len(resp.record.v) |-> Get(resp.record.v[n], <<"i","d">>).v]

ModulesToLists(privs) ==
    /\ privs.t = "obj"
    /\ \A k \in 1..Len(privs.v) : privs.v[k][2].t = "arr"

\* The pairs of a module and an entry of its list: an entry met twice in one
\* module is one pair, an entry of two modules is two.
ModuleEntries(privs) ==
    UNION {{<<privs.v[k][1], privs.v[k][2].v[n]>> : n \in 1..Len(privs.v[k][2].v)} :
              k \in 1..Len(privs.v)}

\* C13: in an answered role list, every summary of a role whose privileges
\* map modules to lists has privileges_count = the number of distinct
\* (module, entry) pairs and modules_count = the number of module keys; the
\* summaries are in ascending id order, and with an empty q there is one for
\* every stored role.
SummaryCountsAndOrder ==
    RolesListed =>
        /\ \A n \in 1..Len(ListedIds) :
             LET e == resp.record.v[n]
                 id == ListedIds[n]
             IN
             /\ id \in Ids(roles)
             /\ LET privs == loads(roles[id].privileges) IN
                ModulesToLists(privs) =>
                  /\ Get(e, <<"p","r","i","v","i","l","e","g","e","s","_","c","o","u","n","t">>)
                       = JNum(Cardinality(ModuleEntries(privs)))
                  /\ Get(e, <<"m","o","d","u","l","e","s","_","c","o","u","n","t">>)
                       = JNum(Len(privs.v))
        /\ \A m, n \in 1..Len(ListedIds) : m < n => ListedIds[m] < ListedIds[n]
        /\ strip(resp.body.v) = <<>> =>
             {ListedIds[n] : n \in 1..Len(ListedIds)} = Ids(roles)

\* A list of several roles, one of them stored with a repeated entry in one
\* module, the same entry in another module and a module with no entry.
RepeatedEntriesListed ==
    /\ RolesListed
    /\ Len(ListedIds) > 1
    /\ \E n \in 1..Len(ListedIds) :
         loads(roles[ListedIds[n]].privileges) = P_modules

\* C14: a user list is answered with exactly the users in whose name,
\* email, role or branch the trimmed q occurs literally, case ignored, in
\* ascending id order; with an empty q, with all users.
UserListLiteralSubstring ==
    resp.op = "get_users" =>
        LET q == lower(strip(resp.body.v))
            Occurs(j) == j.t = "str" /\ StrContains(lower(j.v), q)
        IN
        /\ resp.status = 200
        /\ ListedIds = order_by_id({i \in Ids(users) :
                          \/ q = <<>>
                          \/ Occurs(JStr(users[i].name))
                          \/ Occurs(users[i].email)
                          \/ Occurs(users[i].role)
                          \/ Occurs(users[i].branch)})

\* C16: every role list request is answered 200.
RoleListSucceeds == resp.op = "get_roles" => resp.status = 200
====
